---- MODULE Spec2Model ----
(***************************************************************************)
(* Home-value request workflow of PFE_backend: the router of               *)
(* HomeValueRoutes.js (create, list, claim, delete, list messages, post    *)
(* message) and the update route of the stand-alone index file, run as     *)
(* concurrent handler calls against the shared tables home_values and      *)
(* messages; then the inquiry router, the favorites of the property        *)
(* router and the password reset of the main server.  Every awaited        *)
(* data-store query is one atomic step; the code a handler runs between    *)
(* two awaits belongs to the step of the query before it.                  *)
(***************************************************************************)
EXTENDS Integers, Sequences, FiniteSets, TLC

\* ------------------------------------------------------------ bounds
\* Rows the serial id of home_values may hand out.
MaxReq == 2
\* Rows the serial id of messages may hand out.
MaxMsg == 2
\* Files one multipart call carries (the code allows up to 10).
MaxFiles == 1
\* Rows the serial id of inquiries may hand out.
MaxInq == 2
\* Reset tokens the server may sign.
MaxTok == 2

\* ------------------------------------------------------------ actors
NULL == "null"
\* NULL in a column that holds ids.
NoId == 0
NoRow == [absent |-> TRUE]

\* The actors of the model: the payload of a verified token is (id, role).
UserIds == {"u1", "a1", "g1", "e1", "e2"}

RoleOf(u) ==
    CASE u = "u1" -> "user"
      [] u = "a1" -> "admin"
      [] u = "g1" -> "agent"
      [] OTHER    -> "expert"

Experts == {u \in UserIds : RoleOf(u) = "expert"}

\* Callers whose calls the model enumerates for each route.
Creators == {"u1", "e1"}
Callers == UserIds

Procs == {"p1", "p2"}
ReqIds == 1..MaxReq
MsgIds == 1..MaxMsg
InqIds == 1..MaxInq
TokIds == 1..MaxTok
PropertyIds == {7, 8}

\* Request bodies: address and message are present or missing.
Addresses == {"", "12 Elm St"}
Bodies == {"", "hi"}
FileCounts == 0..MaxFiles

VARIABLES
    hv,           \* table home_values: id -> row or NoRow
    hvSeq,        \* last id the home_values sequence handed out
    msgs,         \* table messages: id -> row or NoRow
    msgSeq,       \* last id the messages sequence handed out
    call,         \* per client connection: the handler call in progress or its response
    inquiries,    \* table inquiries: id -> row or NoRow
    inqSeq,       \* last id the inquiries sequence handed out
    favorites,    \* table favorites: (user_id, property_id) -> number of rows
    pass,         \* column users.pass: user -> password
    reset_tokens, \* table reset_tokens: set of rows (user_id, token)
    tokSeq,       \* reset tokens signed so far
    issued        \* the reset tokens signed: token -> payload and expiry, or NoRow

vars == <<hv, hvSeq, msgs, msgSeq, call,
          inquiries, inqSeq, favorites, pass, reset_tokens, tokSeq, issued>>

\* The tables the home-value routes never touch, and those the other routes
\* never touch.
otherTables == <<inquiries, inqSeq, favorites, pass, reset_tokens, tokSeq, issued>>

homeTables == <<hv, hvSeq>>

\* ------------------------------------------------------------ handler calls
\* A blank call frame: the request's inputs, the handler's locals, the
\* response.  issuedUnclaimed is history no handler reads: whether the target
\* of a claim call was an unclaimed request when the call was issued.
Frame ==
    [pc |-> "idle", op |-> "none", user |-> NULL, role |-> NULL, id |-> 0,
     address |-> "", message |-> "", files |-> 0, imageUrls |-> <<>>,
     existingImages |-> <<>>, delMsgs |-> {}, delReq |-> FALSE,
     rows |-> {}, status |-> 0, issuedUnclaimed |-> FALSE,
     token |-> "none", email |-> "", agent |-> NULL, mid |-> 0, body |-> ""]

Free(p) == call[p].pc \in {"idle", "done", "crashed"}

\* res.status(s).json(...): the call ends with status s; only what the response
\* shows of the call is kept.
Respond(c, s) ==
    [Frame EXCEPT !.pc = "done", !.op = c.op, !.user = c.user, !.role = c.role,
                  !.id = c.id, !.status = s, !.issuedUnclaimed = c.issuedUnclaimed,
                  !.token = c.token, !.email = c.email, !.mid = c.mid]

RespondRows(c, s, rs) == [Respond(c, s) EXCEPT !.rows = rs]

\* authenticateToken with a valid token of actor u: req.user = {id, role}.
Admitted(o, u, i) ==
    [Frame EXCEPT !.op = o, !.user = u, !.role = RoleOf(u), !.id = i, !.token = "valid"]

Exists(i) == hv[i] # NoRow

MsgsOf(i) == {m \in MsgIds : msgs[m] # NoRow /\ msgs[m].home_value_id = i}

\* Calls in progress that will still draw an id from a sequence.
PendingOps(o) == Cardinality({p \in Procs : call[p].pc \notin {"idle", "done", "crashed"} /\ call[p].op = o})

\* bcrypt.hash(password, 10): the stored value is not the password.
Hash(pw) == <<"bcrypt", pw>>

Init ==
    /\ hv = [i \in ReqIds |-> NoRow]
    /\ hvSeq = 0
    /\ msgs = [m \in MsgIds |-> NoRow]
    /\ msgSeq = 0
    /\ call = [p \in Procs |-> Frame]
    /\ inquiries = [i \in InqIds |-> NoRow]
    /\ inqSeq = 0
    /\ favorites = [f \in UserIds \X PropertyIds |-> 0]
    /\ pass = [u \in UserIds |-> Hash("secret")]
    /\ reset_tokens = {}
    /\ tokSeq = 0
    /\ issued = [t \in TokIds |-> NoRow]

\* ------------------------------------------------------------ blob storage
\* uploadToSupabase(files) of HomeValueRoutes.js: the files are uploaded one by
\* one and a file whose upload fails is skipped.  The outcomes: the locators of
\* any sub-sequence of the files, in order.  A file is named by its position.
RECURSIVE SubSeqs(_)
SubSeqs(s) ==
    IF s = <<>> THEN {<<>>}
    ELSE LET rest == SubSeqs(Tail(s))
         IN  rest \cup {<<Head(s)>> \o r : r \in rest}

FilesOf(n) == [k \in 1..n |-> k]

uploadToSupabase(n) == SubSeqs(FilesOf(n))

\* Blob storage without faults: every upload succeeds.
uploadAllStored(n) == {FilesOf(n)}

\* ------------------------------------------------------------ POST /
\* Create home value request: the address check, then the call waits for the uploads.
CreateStart(p, users, addresses, counts) ==
    /\ Free(p)
    /\ hvSeq + PendingOps("create") < MaxReq
    /\ \E u \in users, a \in addresses, n \in counts :
          call' = [call EXCEPT ![p] =
                     IF a = ""
                     THEN Respond(Admitted("create", u, 0), 400)
                     ELSE [Admitted("create", u, 0) EXCEPT
                             !.pc = "c_upload", !.address = a, !.files = n]]
    /\ UNCHANGED <<hv, hvSeq, msgs, msgSeq, otherTables>>

CreateUploadWith(p, outcomes) ==
    /\ call[p].pc = "c_upload"
    /\ \E urls \in outcomes :
          call' = [call EXCEPT ![p].pc = "c_insert", ![p].imageUrls = urls]
    /\ UNCHANGED <<hv, hvSeq, msgs, msgSeq, otherTables>>

CreateUpload(p) == CreateUploadWith(p, uploadAllStored(call[p].files))

\* Variant: a request created by an expert is assigned to its creator.
InsertHomeValueSelfAssigned(c) ==
    [user_id |-> c.user, expert_id |-> IF c.role = "expert" THEN c.user ELSE NULL,
     address |-> c.address, images |-> c.imageUrls]

\* INSERT INTO home_values (...) VALUES ($1, $2, $3, NULL, NOW()) RETURNING *
InsertHomeValue(c) ==
    [user_id |-> c.user, expert_id |-> NULL, address |-> c.address,
     images |-> c.imageUrls]

CreateInsert(p) ==
    /\ call[p].pc = "c_insert"
    /\ hvSeq' = hvSeq + 1
    /\ hv' = [hv EXCEPT ![hvSeq + 1] = InsertHomeValue(call[p])]
    /\ call' = [call EXCEPT ![p] = Respond(call[p], 200)]
    /\ UNCHANGED <<msgs, msgSeq, otherTables>>

\* ------------------------------------------------------------ GET /user-and-expert
ListStart(p, users) ==
    /\ Free(p)
    /\ \E u \in users :
          call' = [call EXCEPT ![p] = [Admitted("list", u, 0) EXCEPT !.pc = "l_select"]]
    /\ UNCHANGED <<hv, hvSeq, msgs, msgSeq, otherTables>>

\* The WHERE clause of the role's query.
ListVisible(c, i) ==
    /\ Exists(i)
    /\ IF c.role = "expert"
       THEN hv[i].expert_id = NULL \/ hv[i].expert_id = c.user
       ELSE hv[i].user_id = c.user

ListSelect(p) ==
    /\ call[p].pc = "l_select"
    /\ call' = [call EXCEPT ![p] =
                  RespondRows(call[p], 200, {i \in ReqIds : ListVisible(call[p], i)})]
    /\ UNCHANGED <<hv, hvSeq, msgs, msgSeq, otherTables>>

\* ------------------------------------------------------------ POST /:id/validate
\* Claim request: the role check answers 403 before any query is sent.
\* if (userRole !== "expert") return res.status(403)
ClaimForbiddenUserOnly(role) == role = "user"

ClaimForbidden(role) == role # "expert"

ClaimStart(p, users) ==
    /\ Free(p)
    /\ \E u \in users, i \in ReqIds :
          LET c == [Admitted("claim", u, i) EXCEPT
                      !.issuedUnclaimed = Exists(i) /\ hv[i].expert_id = NULL]
          IN  call' = [call EXCEPT ![p] =
                         IF ClaimForbidden(c.role)
                         THEN Respond(c, 403)
                         ELSE [c EXCEPT !.pc = "v_update"]]
    /\ UNCHANGED <<hv, hvSeq, msgs, msgSeq, otherTables>>

\* Variant: the WHERE clause without "AND expert_id IS NULL".
ClaimWhereAnyExpert(i) == Exists(i)

\* Whether UPDATE home_values SET expert_id = $1
\*         WHERE id = $2 AND expert_id IS NULL     matches a row.
ClaimWhere(i) == Exists(i) /\ hv[i].expert_id = NULL

\* Variant: a missing request answered 404.
ClaimStatusSplit(matched, i) == IF matched THEN 200 ELSE IF Exists(i) THEN 400 ELSE 404

\* Variant: rowCount is not looked at.
ClaimStatusOk(matched, i) == 200

\* The status of the claim response: rowCount === 0 answers 400 "Request
\* already assigned or not found", whichever of the two it was.
ClaimStatus(matched, i) == IF matched THEN 200 ELSE 400

ClaimUpdate(p) ==
    /\ call[p].pc = "v_update"
    /\ LET c == call[p]
           matched == ClaimWhere(c.id)
       IN  /\ hv' = IF matched THEN [hv EXCEPT ![c.id].expert_id = c.user] ELSE hv
           /\ call' = [call EXCEPT ![p] = Respond(c, ClaimStatus(matched, c.id))]
    /\ UNCHANGED <<hvSeq, msgs, msgSeq, otherTables>>

\* ------------------------------------------------------------ DELETE /:id
\* The handler's statements between BEGIN and COMMIT form one transaction of
\* the data store: its deletions become visible to the other calls at COMMIT
\* and are discarded by ROLLBACK.  call[p].delMsgs and call[p].delReq are the
\* deletions the open transaction holds.
DeleteStart(p, users) ==
    /\ Free(p)
    /\ \E u \in users, i \in ReqIds :
          call' = [call EXCEPT ![p] = [Admitted("delete", u, i) EXCEPT !.pc = "d_begin"]]
    /\ UNCHANGED <<hv, hvSeq, msgs, msgSeq, otherTables>>

DeleteBegin(p) ==
    /\ call[p].pc = "d_begin"
    /\ call' = [call EXCEPT ![p].pc = "d_select"]
    /\ UNCHANGED <<hv, hvSeq, msgs, msgSeq, otherTables>>

\* Variant: only the owner may delete.
DeleteDeniedOwnerOnly(c, row) == row.user_id # c.user

\* request.user_id !== userId && (userRole !== "expert" || request.expert_id !== userId)
DeleteDenied(c, row) ==
    row.user_id # c.user /\ (c.role # "expert" \/ row.expert_id # c.user)

DeleteSelect(p) ==
    /\ call[p].pc = "d_select"
    /\ LET c == call[p]
       IN  call' = [call EXCEPT ![p].pc =
                      IF ~Exists(c.id) THEN "d_rollback404"
                      ELSE IF DeleteDenied(c, hv[c.id]) THEN "d_rollback403"
                      ELSE "d_delmsgs"]
    /\ UNCHANGED <<hv, hvSeq, msgs, msgSeq, otherTables>>

\* await pool.query("ROLLBACK"); return res.status(404 | 403)
DeleteRollbackReturn(p) ==
    /\ call[p].pc \in {"d_rollback404", "d_rollback403"}
    /\ call' = [call EXCEPT ![p] =
                  Respond(call[p], IF call[p].pc = "d_rollback404" THEN 404 ELSE 403)]
    /\ UNCHANGED <<hv, hvSeq, msgs, msgSeq, otherTables>>

\* DELETE FROM messages WHERE home_value_id = $1
DeleteMessages(p) ==
    /\ call[p].pc = "d_delmsgs"
    /\ call' = [call EXCEPT ![p].pc = "d_delreq", ![p].delMsgs = MsgsOf(call[p].id)]
    /\ UNCHANGED <<hv, hvSeq, msgs, msgSeq, otherTables>>

\* DELETE FROM home_values WHERE id = $1 RETURNING *
DeleteRequest(p) ==
    /\ call[p].pc = "d_delreq"
    /\ call' = [call EXCEPT ![p].pc = "d_commit", ![p].delReq = Exists(call[p].id)]
    /\ UNCHANGED <<hv, hvSeq, msgs, msgSeq, otherTables>>

\* The tables once the data store has committed the transaction of call c.
CommittedMessages(c) == [m \in MsgIds |-> IF m \in c.delMsgs THEN NoRow ELSE msgs[m]]

CommittedHomeValues(c) == IF c.delReq THEN [hv EXCEPT ![c.id] = NoRow] ELSE hv

\* COMMIT; res.status(204).send()
DeleteCommit(p) ==
    /\ call[p].pc = "d_commit"
    /\ LET c == call[p]
       IN  /\ msgs' = CommittedMessages(c)
           /\ hv' = CommittedHomeValues(c)
           /\ call' = [call EXCEPT ![p] = Respond(c, 204)]
    /\ UNCHANGED <<hvSeq, msgSeq, otherTables>>

\* ------------------------------------------------------------ GET /:id/messages
MessagesStart(p, users) ==
    /\ Free(p)
    /\ \E u \in users, i \in ReqIds :
          call' = [call EXCEPT ![p] = [Admitted("messages", u, i) EXCEPT !.pc = "m_check"]]
    /\ UNCHANGED <<hv, hvSeq, msgs, msgSeq, otherTables>>

\* The two checks after the SELECT of user_id, expert_id: the status they
\* answer, 0 when the call goes on.
MessagesGuard(c, row) ==
    IF c.user # row.user_id /\ c.role # "expert" THEN 403
    ELSE IF c.role = "expert" /\ row.expert_id # NULL /\ row.expert_id # c.user THEN 403
    ELSE 0

MessagesCheck(p) ==
    /\ call[p].pc = "m_check"
    /\ LET c == call[p]
       IN  call' = [call EXCEPT ![p] =
                      IF ~Exists(c.id) THEN Respond(c, 404)
                      ELSE IF MessagesGuard(c, hv[c.id]) # 0
                           THEN Respond(c, MessagesGuard(c, hv[c.id]))
                      ELSE [c EXCEPT !.pc = "m_select"]]
    /\ UNCHANGED <<hv, hvSeq, msgs, msgSeq, otherTables>>

\* SELECT m.* FROM messages m WHERE m.home_value_id = $1; res.json(rows)
MessagesSelect(p) ==
    /\ call[p].pc = "m_select"
    /\ call' = [call EXCEPT ![p] = RespondRows(call[p], 200, MsgsOf(call[p].id))]
    /\ UNCHANGED <<hv, hvSeq, msgs, msgSeq, otherTables>>

\* ------------------------------------------------------------ POST /:id/messages
\* Variant: the validation is missing.
PostInvalidNever(b, n) == FALSE

\* if (!message && (!req.files || req.files.length === 0)) return 400
PostInvalid(b, n) == b = "" /\ n = 0

PostStart(p, users, bodies, counts) ==
    /\ Free(p)
    /\ msgSeq + PendingOps("post") < MaxMsg
    /\ \E u \in users, i \in ReqIds, b \in bodies, n \in counts :
          call' = [call EXCEPT ![p] =
                     IF PostInvalid(b, n)
                     THEN Respond(Admitted("post", u, i), 400)
                     ELSE [Admitted("post", u, i) EXCEPT
                             !.pc = "p_check", !.message = b, !.files = n]]
    /\ UNCHANGED <<hv, hvSeq, msgs, msgSeq, otherTables>>

\* Variant: only the first check.
PostGuardFirstOnly(c, row) ==
    IF c.user # row.user_id /\ c.role # "expert" THEN 403 ELSE 0

\* The same two checks as in GET /:id/messages.
PostGuard(c, row) ==
    IF c.user # row.user_id /\ c.role # "expert" THEN 403
    ELSE IF c.role = "expert" /\ row.expert_id # NULL /\ row.expert_id # c.user THEN 403
    ELSE 0

PostCheck(p) ==
    /\ call[p].pc = "p_check"
    /\ LET c == call[p]
       IN  call' = [call EXCEPT ![p] =
                      IF ~Exists(c.id) THEN Respond(c, 404)
                      ELSE IF PostGuard(c, hv[c.id]) # 0
                           THEN Respond(c, PostGuard(c, hv[c.id]))
                      ELSE [c EXCEPT !.pc = "p_upload"]]
    /\ UNCHANGED <<hv, hvSeq, msgs, msgSeq, otherTables>>

PostUploadWith(p, outcomes) ==
    /\ call[p].pc = "p_upload"
    /\ \E urls \in outcomes :
          call' = [call EXCEPT ![p].pc = "p_insert", ![p].imageUrls = urls]
    /\ UNCHANGED <<hv, hvSeq, msgs, msgSeq, otherTables>>

PostUpload(p) == PostUploadWith(p, uploadAllStored(call[p].files))

\* INSERT INTO messages (home_value_id, sender_id, message, images, created_at, is_read)
\* VALUES ($1, $2, $3, $4, NOW(), FALSE)
InsertMessage(c) ==
    [home_value_id |-> c.id, inquiry_id |-> NoId, sender_id |-> c.user,
     message |-> c.message, images |-> c.imageUrls, is_read |-> FALSE]

PostInsert(p) ==
    /\ call[p].pc = "p_insert"
    /\ msgSeq' = msgSeq + 1
    /\ msgs' = [msgs EXCEPT ![msgSeq + 1] = InsertMessage(call[p])]
    /\ call' = [call EXCEPT ![p] = Respond(call[p], 201)]
    /\ UNCHANGED <<hv, hvSeq, otherTables>>

\* ------------------------------------------------------------ PUT /api/home-values/:id
\* Update existing home value (stand-alone index file): no token is asked for.
\* existingImages is the caller's JSON list; every new file is uploaded and its
\* locator appended.
UpdateStart(p, addresses, counts) ==
    /\ Free(p)
    /\ \E i \in ReqIds, a \in addresses, n \in counts,
          ex \in {<<>>} \cup {hv[j].images : j \in {k \in ReqIds : Exists(k)}} :
          /\ Len(ex) + n <= MaxFiles
          /\ call' = [call EXCEPT ![p] =
                        [Frame EXCEPT !.op = "update", !.id = i, !.pc = "u_upload",
                                      !.address = a, !.files = n, !.existingImages = ex]]
    /\ UNCHANGED <<hv, hvSeq, msgs, msgSeq, otherTables>>

UpdateUpload(p) ==
    /\ call[p].pc = "u_upload"
    /\ call' = [call EXCEPT ![p].pc = "u_update",
                            ![p].imageUrls = call[p].existingImages \o FilesOf(call[p].files)]
    /\ UNCHANGED <<hv, hvSeq, msgs, msgSeq, otherTables>>

\* Variant: the row is written as a whole, expert_id as at creation.
UpdateHomeValueWholeRow(row, c) ==
    [row EXCEPT !.address = c.address, !.images = c.imageUrls, !.expert_id = NULL]

\* UPDATE home_values SET address = $1, images = $2 WHERE id = $3 RETURNING *
UpdateHomeValue(row, c) == [row EXCEPT !.address = c.address, !.images = c.imageUrls]

UpdateQuery(p) ==
    /\ call[p].pc = "u_update"
    /\ LET c == call[p]
       IN  /\ hv' = IF Exists(c.id) THEN [hv EXCEPT ![c.id] = UpdateHomeValue(hv[c.id], c)] ELSE hv
           /\ call' = [call EXCEPT ![p] = Respond(c, 200)]
    /\ UNCHANGED <<hvSeq, msgs, msgSeq, otherTables>>

\* ------------------------------------------------------------ faults
\* A query of pool rejects: the handler's catch block answers 500.
QueryPcs == {"c_insert", "l_select", "v_update", "m_check", "m_select",
             "p_check", "p_insert", "u_update"}

QueryFails(p) ==
    /\ call[p].pc \in QueryPcs
    /\ call' = [call EXCEPT ![p] = Respond(call[p], 500)]
    /\ UNCHANGED <<hv, hvSeq, msgs, msgSeq, otherTables>>

\* Some upload is refused by blob storage: uploadToSupabase of the router skips the file.
CreateUploadPartial(p) ==
    /\ call[p].files > 0
    /\ CreateUploadWith(p, uploadToSupabase(call[p].files) \ uploadAllStored(call[p].files))

PostUploadPartial(p) ==
    /\ call[p].files > 0
    /\ PostUploadWith(p, uploadToSupabase(call[p].files) \ uploadAllStored(call[p].files))

\* uploadToSupabase of the index file throws on a refused upload: 500.
UpdateUploadFails(p) ==
    /\ call[p].pc = "u_upload"
    /\ call[p].files > 0
    /\ call' = [call EXCEPT ![p] = Respond(call[p], 500)]
    /\ UNCHANGED <<hv, hvSeq, msgs, msgSeq, otherTables>>

\* A statement of the delete handler rejects (BEGIN, SELECT, either DELETE,
\* COMMIT, or the ROLLBACK before a 404/403): control passes to the catch block.
DeletePcs == {"d_begin", "d_select", "d_rollback404", "d_rollback403",
              "d_delmsgs", "d_delreq", "d_commit"}

DeleteQueryFails(p) ==
    /\ call[p].pc \in DeletePcs
    /\ call' = [call EXCEPT ![p].pc = "d_catch"]
    /\ UNCHANGED <<hv, hvSeq, msgs, msgSeq, otherTables>>

\* catch: await pool.query("ROLLBACK"); res.status(500)
DeleteCatchRollback(p) ==
    /\ call[p].pc = "d_catch"
    /\ call' = [call EXCEPT ![p] = Respond(call[p], 500)]
    /\ UNCHANGED <<hv, hvSeq, msgs, msgSeq, otherTables>>

\* The ROLLBACK of the catch block rejects too: the rejection leaves the
\* handler and no response is sent.
DeleteCatchRollbackFails(p) ==
    /\ call[p].pc = "d_catch"
    /\ call' = [call EXCEPT ![p] = [Respond(call[p], 0) EXCEPT !.pc = "crashed"]]
    /\ UNCHANGED <<hv, hvSeq, msgs, msgSeq, otherTables>>

\* ------------------------------------------------------------ authenticateToken
\* What the Authorization header of a call carries: no token, a token
\* jwt.verify rejects (bad signature, or expired), or a token it accepts.
Tokens == {"none", "invalid", "expired", "valid"}

\* The routes of the home-value router; each has authenticateToken first in its chain.
RouterOps == {"create", "list", "claim", "delete", "messages", "post"}

\* Variant: every refusal is answered 401.
authenticateTokenAll401(token) == IF token = "valid" THEN 0 ELSE 401

\* The status authenticateToken answers, 0 when it calls next():
\* if (!token) return 401; jwt.verify(...): if (err) return 403.
authenticateToken(token) ==
    IF token = "none" THEN 401
    ELSE IF token \in {"invalid", "expired"} THEN 403
    ELSE 0

\* A call of a route that authenticateToken answers itself: the handler is not called.
Refused(p, ops, tokens) ==
    /\ Free(p)
    /\ \E o \in ops, t \in tokens :
          /\ authenticateToken(t) # 0
          /\ call' = [call EXCEPT ![p] =
                        Respond([Frame EXCEPT !.op = o, !.token = t], authenticateToken(t))]
    /\ UNCHANGED <<hv, hvSeq, msgs, msgSeq, otherTables>>

\* ------------------------------------------------------------ inquiries: POST /
\* The actors and inputs of the inquiry routes the model enumerates.
InqUsers == {"u1", "g1", "e1"}
InqAgents == {NULL, "g1", "u1"}

InqExists(i) == inquiries[i] # NoRow

InqMsgsOf(i) == {m \in MsgIds : msgs[m] # NoRow /\ msgs[m].inquiry_id = i}

\* Calls in progress that will still draw an id from the messages sequence.
PendingMsgOps ==
    Cardinality({p \in Procs : /\ call[p].pc \notin {"idle", "done", "crashed"}
                               /\ call[p].op \in {"post", "icreate", "ipost"}})

\* Create an inquiry and its first message.  BEGIN .. COMMIT is one
\* transaction of the data store: the two inserted rows become visible at
\* COMMIT and are discarded by ROLLBACK; the sequences are advanced at once.
InqCreateStart(p, users, agents) ==
    /\ Free(p)
    /\ inqSeq + Cardinality({q \in Procs : ~Free(q) /\ call[q].op = "icreate"}) < MaxInq
    /\ msgSeq + PendingMsgOps < MaxMsg
    /\ \E u \in users, a \in agents :
          call' = [call EXCEPT ![p] =
                     [Admitted("icreate", u, 0) EXCEPT
                        !.pc = "ic_begin", !.agent = a, !.message = "hello"]]
    /\ UNCHANGED <<hv, hvSeq, msgs, msgSeq, otherTables>>

InqCreateBegin(p) ==
    /\ call[p].pc = "ic_begin"
    /\ call' = [call EXCEPT ![p].pc = "ic_insert"]
    /\ UNCHANGED <<hv, hvSeq, msgs, msgSeq, otherTables>>

\* INSERT INTO inquiries (...) RETURNING *: newInquiry.id
InqCreateInsert(p) ==
    /\ call[p].pc = "ic_insert"
    /\ inqSeq' = inqSeq + 1
    /\ call' = [call EXCEPT ![p].pc = "ic_message", ![p].id = inqSeq + 1]
    /\ UNCHANGED <<hv, hvSeq, msgs, msgSeq, inquiries, favorites, pass, reset_tokens, tokSeq, issued>>

\* INSERT INTO messages (inquiry_id, sender_id, message, created_at)
InqCreateMessage(p) ==
    /\ call[p].pc = "ic_message"
    /\ msgSeq' = msgSeq + 1
    /\ call' = [call EXCEPT ![p].pc = "ic_commit", ![p].mid = msgSeq + 1]
    /\ UNCHANGED <<hv, hvSeq, msgs, otherTables>>

\* The row of the inquiry: status = 'pending', agent_id || null.
InsertInquiry(c) == [user_id |-> c.user, agent_id |-> c.agent, status |-> "pending"]

InsertInquiryMessage(c, i) ==
    [home_value_id |-> NoId, inquiry_id |-> i, sender_id |-> c.user,
     message |-> c.message, images |-> c.imageUrls, is_read |-> FALSE]

\* The tables once the data store has committed the transaction of create call c.
CommittedInquiries(c) == [inquiries EXCEPT ![c.id] = InsertInquiry(c)]

CommittedInquiryMessages(c) == [msgs EXCEPT ![c.mid] = InsertInquiryMessage(c, c.id)]

\* COMMIT; res.status(201).json(newInquiry)
InqCreateCommit(p) ==
    /\ call[p].pc = "ic_commit"
    /\ inquiries' = CommittedInquiries(call[p])
    /\ msgs' = CommittedInquiryMessages(call[p])
    /\ call' = [call EXCEPT ![p] = Respond(call[p], 201)]
    /\ UNCHANGED <<hv, hvSeq, msgSeq, inqSeq, favorites, pass, reset_tokens, tokSeq, issued>>

\* A statement of the create handler rejects: control passes to the catch block.
InqCreatePcs == {"ic_begin", "ic_insert", "ic_message", "ic_commit"}

InqCreateFails(p) ==
    /\ call[p].pc \in InqCreatePcs
    /\ call' = [call EXCEPT ![p].pc = "ic_catch"]
    /\ UNCHANGED <<hv, hvSeq, msgs, msgSeq, otherTables>>

\* Variant: the statements of the handler take effect one by one, so the
\* inquiry row inserted before the failure stays.
InqCreateCatchRollbackAutocommit(p) ==
    /\ call[p].pc = "ic_catch"
    /\ \E s \in {400, 500} : call' = [call EXCEPT ![p] = Respond(call[p], s)]
    /\ inquiries' = IF call[p].id # NoId THEN CommittedInquiries(call[p]) ELSE inquiries
    /\ UNCHANGED <<hv, hvSeq, msgs, msgSeq, inqSeq, favorites, pass, reset_tokens, tokSeq, issued>>

\* catch: await pool.query('ROLLBACK'); 400 for a foreign-key violation, else 500
InqCreateCatchRollback(p) ==
    /\ call[p].pc = "ic_catch"
    /\ \E s \in {400, 500} : call' = [call EXCEPT ![p] = Respond(call[p], s)]
    /\ UNCHANGED <<hv, hvSeq, msgs, msgSeq, otherTables>>

\* The ROLLBACK of the catch block rejects too: no response is sent.
InqCreateCatchRollbackFails(p) ==
    /\ call[p].pc = "ic_catch"
    /\ call' = [call EXCEPT ![p] = [Respond(call[p], 0) EXCEPT !.pc = "crashed"]]
    /\ UNCHANGED <<hv, hvSeq, msgs, msgSeq, otherTables>>

\* ------------------------------------------------------------ inquiries: the access check
\* Variant: an inquiry without an agent is open to every actor.
InqDeniedAssignedOnly(c, row) ==
    row.agent_id # NULL /\ row.user_id # c.user /\ row.agent_id # c.user

\* inquiry.user_id !== user_id && inquiry.agent_id !== user_id, the check of
\* the four routes on one inquiry.
InqDenied(c, row) == row.user_id # c.user /\ row.agent_id # c.user

\* The answer of the SELECT of the inquiry and of the check: 404, 403, or 0
\* when the call goes on.
InqGuard(c) ==
    IF ~InqExists(c.id) THEN 404
    ELSE IF InqDenied(c, inquiries[c.id]) THEN 403
    ELSE 0

\* ------------------------------------------------------------ inquiries: POST /:id/messages
InqPostStart(p, users, bodies) ==
    /\ Free(p)
    /\ msgSeq + PendingMsgOps < MaxMsg
    /\ \E u \in users, i \in InqIds, b \in bodies :
          call' = [call EXCEPT ![p] =
                     IF b = ""
                     THEN Respond(Admitted("ipost", u, i), 400)
                     ELSE [Admitted("ipost", u, i) EXCEPT !.pc = "ip_check", !.message = b]]
    /\ UNCHANGED <<hv, hvSeq, msgs, msgSeq, otherTables>>

\* SELECT user_id, agent_id FROM inquiries WHERE id = $1; the row is kept in
\* the local inquiry.
InqPostCheck(p) ==
    /\ call[p].pc = "ip_check"
    /\ LET c == call[p]
       IN  call' = [call EXCEPT ![p] =
                      IF InqGuard(c) # 0 THEN Respond(c, InqGuard(c))
                      ELSE [c EXCEPT !.pc = "ip_insert", !.agent = inquiries[c.id].agent_id]]
    /\ UNCHANGED <<hv, hvSeq, msgs, msgSeq, otherTables>>

\* INSERT INTO messages (...); if (inquiry.agent_id === sender_id) the status
\* UPDATE follows, else 201.
InqPostInsert(p) ==
    /\ call[p].pc = "ip_insert"
    /\ msgSeq' = msgSeq + 1
    /\ msgs' = [msgs EXCEPT ![msgSeq + 1] = InsertInquiryMessage(call[p], call[p].id)]
    /\ call' = [call EXCEPT ![p] =
                  IF call[p].agent = call[p].user
                  THEN [call[p] EXCEPT !.pc = "ip_status"]
                  ELSE Respond(call[p], 201)]
    /\ UNCHANGED <<hv, hvSeq, otherTables>>

\* UPDATE inquiries SET status = 'in_progress' WHERE id = $2; 201
InqPostStatus(p) ==
    /\ call[p].pc = "ip_status"
    /\ inquiries' = IF InqExists(call[p].id)
                    THEN [inquiries EXCEPT ![call[p].id].status = "in_progress"]
                    ELSE inquiries
    /\ call' = [call EXCEPT ![p] = Respond(call[p], 201)]
    /\ UNCHANGED <<hv, hvSeq, msgs, msgSeq, inqSeq, favorites, pass, reset_tokens, tokSeq, issued>>

\* ------------------------------------------------------------ inquiries: GET /:id/messages
InqMessagesStart(p, users) ==
    /\ Free(p)
    /\ \E u \in users, i \in InqIds :
          call' = [call EXCEPT ![p] = [Admitted("imessages", u, i) EXCEPT !.pc = "im_check"]]
    /\ UNCHANGED <<hv, hvSeq, msgs, msgSeq, otherTables>>

InqMessagesCheck(p) ==
    /\ call[p].pc = "im_check"
    /\ LET c == call[p]
       IN  call' = [call EXCEPT ![p] =
                      IF InqGuard(c) # 0 THEN Respond(c, InqGuard(c))
                      ELSE [c EXCEPT !.pc = "im_select"]]
    /\ UNCHANGED <<hv, hvSeq, msgs, msgSeq, otherTables>>

\* SELECT m.* FROM messages m JOIN inquiries i ON m.inquiry_id = i.id
\* WHERE m.inquiry_id = $2: the rows of the response.
InqMessagesSelect(p) ==
    /\ call[p].pc = "im_select"
    /\ call' = [call EXCEPT ![p].pc = "im_mark",
                            ![p].rows = IF InqExists(call[p].id)
                                        THEN InqMsgsOf(call[p].id) ELSE {}]
    /\ UNCHANGED <<hv, hvSeq, msgs, msgSeq, otherTables>>

\* UPDATE messages SET is_read = true
\* WHERE inquiry_id = $1 AND sender_id != $2 AND is_read = false
MarkRead(c) ==
    [m \in MsgIds |->
        IF m \in InqMsgsOf(c.id) /\ msgs[m].sender_id # c.user /\ ~msgs[m].is_read
        THEN [msgs[m] EXCEPT !.is_read = TRUE]
        ELSE msgs[m]]

\* The UPDATE, then res.json(result.rows).
InqMessagesMark(p) ==
    /\ call[p].pc = "im_mark"
    /\ msgs' = MarkRead(call[p])
    /\ call' = [call EXCEPT ![p] = RespondRows(call[p], 200, call[p].rows)]
    /\ UNCHANGED <<hv, hvSeq, msgSeq, otherTables>>

\* ------------------------------------------------------------ inquiries: GET /:id
InqReadStart(p, users) ==
    /\ Free(p)
    /\ \E u \in users, i \in InqIds :
          call' = [call EXCEPT ![p] = [Admitted("iread", u, i) EXCEPT !.pc = "ir_select"]]
    /\ UNCHANGED <<hv, hvSeq, msgs, msgSeq, otherTables>>

\* SELECT * FROM inquiries WHERE id = $1; 404, 403 or res.json(inquiry)
InqReadSelect(p) ==
    /\ call[p].pc = "ir_select"
    /\ LET c == call[p]
       IN  call' = [call EXCEPT ![p] =
                      IF InqGuard(c) # 0 THEN Respond(c, InqGuard(c))
                      ELSE RespondRows(c, 200, {c.id})]
    /\ UNCHANGED <<hv, hvSeq, msgs, msgSeq, otherTables>>

\* ------------------------------------------------------------ inquiries: DELETE /:id
\* No transaction here: each DELETE takes effect at once.
InqDeleteStart(p, users) ==
    /\ Free(p)
    /\ \E u \in users, i \in InqIds :
          call' = [call EXCEPT ![p] = [Admitted("idelete", u, i) EXCEPT !.pc = "id_check"]]
    /\ UNCHANGED <<hv, hvSeq, msgs, msgSeq, otherTables>>

InqDeleteCheck(p) ==
    /\ call[p].pc = "id_check"
    /\ LET c == call[p]
       IN  call' = [call EXCEPT ![p] =
                      IF InqGuard(c) # 0 THEN Respond(c, InqGuard(c))
                      ELSE [c EXCEPT !.pc = "id_delmsgs"]]
    /\ UNCHANGED <<hv, hvSeq, msgs, msgSeq, otherTables>>

\* DELETE FROM messages WHERE inquiry_id = $1
InqDeleteMessages(p) ==
    /\ call[p].pc = "id_delmsgs"
    /\ msgs' = [m \in MsgIds |-> IF m \in InqMsgsOf(call[p].id) THEN NoRow ELSE msgs[m]]
    /\ call' = [call EXCEPT ![p].pc = "id_delreq"]
    /\ UNCHANGED <<hv, hvSeq, msgSeq, otherTables>>

\* DELETE FROM inquiries WHERE id = $1 RETURNING *; 200
InqDeleteInquiry(p) ==
    /\ call[p].pc = "id_delreq"
    /\ inquiries' = [inquiries EXCEPT ![call[p].id] = NoRow]
    /\ call' = [call EXCEPT ![p] = Respond(call[p], 200)]
    /\ UNCHANGED <<hv, hvSeq, msgs, msgSeq, inqSeq, favorites, pass, reset_tokens, tokSeq, issued>>

\* ------------------------------------------------------------ account: the users
\* Column users.email; the addresses a caller may send.
EmailOf(u) == <<u, "@mail">>
Emails == {"", EmailOf("u1"), EmailOf("e1"), <<"nobody", "@mail">>}

\* SELECT * FROM users WHERE email = $1: rows[0], or NULL.
UserByEmail(e) == IF \E u \in UserIds : EmailOf(u) = e
                  THEN CHOOSE u \in UserIds : EmailOf(u) = e
                  ELSE NULL

\* A response with a message in its body.
RespondMessage(c, s, m) == [Respond(c, s) EXCEPT !.body = m]

\* ------------------------------------------------------------ account: POST /api/forgot-password
\* Variant: an unknown address is answered 404.
ForgotNoUserRevealing == [status |-> 404, message |-> "No account with this email"]

\* The answer when no user has the address.
ForgotNoUser ==
    [status |-> 200, message |-> "If the email exists, a reset link has been sent."]

\* The answer after the mail was sent.
ForgotSent ==
    [status |-> 200, message |-> "If the email exists, a reset link has been sent."]

ForgotStart(p, emails) ==
    /\ Free(p)
    /\ tokSeq + Cardinality({q \in Procs : ~Free(q) /\ call[q].op = "forgot"}) < MaxTok
    /\ \E e \in emails :
          call' = [call EXCEPT ![p] =
                     IF e = ""
                     THEN RespondMessage([Frame EXCEPT !.op = "forgot", !.email = e],
                                         400, "Email is required")
                     ELSE [Frame EXCEPT !.op = "forgot", !.email = e, !.pc = "fp_select"]]
    /\ UNCHANGED <<hv, hvSeq, msgs, msgSeq, otherTables>>

\* SELECT * FROM users WHERE email = $1; if (!user) the answer is sent at
\* once, else resetToken = jwt.sign({ id: user.id }, ..., { expiresIn: "1h" }).
ForgotSelect(p) ==
    /\ call[p].pc = "fp_select"
    /\ LET c == call[p]
           u == UserByEmail(c.email)
       IN  IF u = NULL
           THEN /\ call' = [call EXCEPT ![p] =
                              RespondMessage(c, ForgotNoUser.status, ForgotNoUser.message)]
                /\ UNCHANGED <<tokSeq, issued>>
           ELSE /\ tokSeq' = tokSeq + 1
                /\ issued' = [issued EXCEPT ![tokSeq + 1] = [id |-> u, expired |-> FALSE]]
                /\ call' = [call EXCEPT ![p] = [c EXCEPT !.pc = "fp_insert", !.user = u,
                                                         !.id = tokSeq + 1]]
    /\ UNCHANGED <<hv, hvSeq, msgs, msgSeq, inquiries, inqSeq, favorites, pass, reset_tokens>>

\* INSERT INTO reset_tokens (user_id, token, expires_at)
ForgotInsert(p) ==
    /\ call[p].pc = "fp_insert"
    /\ reset_tokens' = reset_tokens \cup {[user_id |-> call[p].user, token |-> call[p].id]}
    /\ call' = [call EXCEPT ![p].pc = "fp_mail"]
    /\ UNCHANGED <<hv, hvSeq, msgs, msgSeq, inquiries, inqSeq, favorites, pass, tokSeq, issued>>

\* await transporter.sendMail(mailOptions); 200
ForgotMail(p) ==
    /\ call[p].pc = "fp_mail"
    /\ call' = [call EXCEPT ![p] =
                  RespondMessage(call[p], ForgotSent.status, ForgotSent.message)]
    /\ UNCHANGED <<hv, hvSeq, msgs, msgSeq, otherTables>>

\* A store call or the mail delivery rejects: catch, 500.
ForgotFails(p) ==
    /\ call[p].pc \in {"fp_select", "fp_insert", "fp_mail"}
    /\ call' = [call EXCEPT ![p] =
                  RespondMessage(call[p], 500, "Server error, please try again later")]
    /\ UNCHANGED <<hv, hvSeq, msgs, msgSeq, otherTables>>

\* One hour has passed since token t was signed.
Expire(t) ==
    /\ issued[t] # NoRow
    /\ ~issued[t].expired
    /\ issued' = [issued EXCEPT ![t].expired = TRUE]
    /\ UNCHANGED <<hv, hvSeq, msgs, msgSeq, call, inquiries, inqSeq, favorites, pass,
                   reset_tokens, tokSeq>>

\* ------------------------------------------------------------ account: POST /api/reset-password
\* The passwords a caller may send.
Passwords == {"", "new1", "new2"}

\* Token 0 stands for a missing token; a token that was never signed does
\* not verify.  jwt.verify runs before the first store call: a token that
\* does not verify ends in the catch block with 500, an expired one with 400.
ResetStart(p, tokens, passwords) ==
    /\ Free(p)
    /\ \E t \in tokens, pw \in passwords :
          LET c == [Frame EXCEPT !.op = "reset", !.id = t, !.message = pw]
          IN  call' = [call EXCEPT ![p] =
                 IF t = NoId \/ pw = ""
                 THEN RespondMessage(c, 400, "Token and new password are required")
                 ELSE IF issued[t] = NoRow
                 THEN RespondMessage(c, 500, "Server error, please try again later")
                 ELSE IF issued[t].expired
                 THEN RespondMessage(c, 400, "Reset token has expired")
                 ELSE [c EXCEPT !.pc = "r_select", !.user = issued[t].id]]
    /\ UNCHANGED <<hv, hvSeq, msgs, msgSeq, otherTables>>

\* SELECT * FROM reset_tokens WHERE token = $1 AND expires_at > NOW();
\* if (!resetToken || resetToken.user_id !== decoded.id) 400
ResetSelect(p) ==
    /\ call[p].pc = "r_select"
    /\ LET c == call[p]
           rs == {r \in reset_tokens : r.token = c.id /\ ~issued[c.id].expired}
       IN  call' = [call EXCEPT ![p] =
                      IF rs = {} \/ \A r \in rs : r.user_id # c.user
                      THEN RespondMessage(c, 400, "Invalid or expired reset token")
                      ELSE [c EXCEPT !.pc = "r_hash"]]
    /\ UNCHANGED <<hv, hvSeq, msgs, msgSeq, otherTables>>

\* await bcrypt.hash(newPassword, 10)
ResetHash(p) ==
    /\ call[p].pc = "r_hash"
    /\ call' = [call EXCEPT ![p].pc = "r_update"]
    /\ UNCHANGED <<hv, hvSeq, msgs, msgSeq, otherTables>>

\* UPDATE users SET pass = $1 WHERE id = $2
ResetUpdate(p) ==
    /\ call[p].pc = "r_update"
    /\ pass' = [pass EXCEPT ![call[p].user] = Hash(call[p].message)]
    /\ call' = [call EXCEPT ![p].pc = "r_delete"]
    /\ UNCHANGED <<hv, hvSeq, msgs, msgSeq, inquiries, inqSeq, favorites, reset_tokens,
                   tokSeq, issued>>

\* DELETE FROM reset_tokens WHERE token = $1; 200
ResetDelete(p) ==
    /\ call[p].pc = "r_delete"
    /\ reset_tokens' = {r \in reset_tokens : r.token # call[p].id}
    /\ call' = [call EXCEPT ![p] =
                  RespondMessage(call[p], 200,
                                 "Password reset successfully! You can now sign in.")]
    /\ UNCHANGED <<hv, hvSeq, msgs, msgSeq, inquiries, inqSeq, favorites, pass, tokSeq, issued>>

\* A store call or the hashing of the reset handler rejects: catch, 500.
ResetFails(p) ==
    /\ call[p].pc \in {"r_select", "r_hash", "r_update", "r_delete"}
    /\ call' = [call EXCEPT ![p] =
                  RespondMessage(call[p], 500, "Server error, please try again later")]
    /\ UNCHANGED <<hv, hvSeq, msgs, msgSeq, otherTables>>

\* ------------------------------------------------------------ properties: favorites
\* req.body.propertyId as sent, and parseInt of it; a text outside the
\* domain parses to NaN.
PropertyInputs == {"abc", "7", "7abc", "8"}
ParseInt == [s \in {"7", "7abc"} |-> 7] @@ [s \in {"8"} |-> 8]
IsNaN(s) == s \notin DOMAIN ParseInt

FavUsers == {"u1", "e1"}

\* POST /favorites: parseInt(req.body.propertyId); 400 if NaN
FavAddStart(p, users, inputs) ==
    /\ Free(p)
    /\ \E u \in users, s \in inputs :
          call' = [call EXCEPT ![p] =
                     IF IsNaN(s)
                     THEN RespondMessage(Admitted("fadd", u, NoId), 400, "Invalid property ID")
                     ELSE [Admitted("fadd", u, ParseInt[s]) EXCEPT !.pc = "fav_check"]]
    /\ UNCHANGED <<hv, hvSeq, msgs, msgSeq, otherTables>>

\* SELECT COUNT(*) FROM favorites WHERE user_id=$1 AND property_id=$2;
\* 400 if the count is above 0
FavAddCheck(p) ==
    /\ call[p].pc = "fav_check"
    /\ LET c == call[p]
       IN  call' = [call EXCEPT ![p] =
                      IF favorites[<<c.user, c.id>>] > 0
                      THEN RespondMessage(c, 400, "Favorite already exists")
                      ELSE [c EXCEPT !.pc = "fav_insert"]]
    /\ UNCHANGED <<hv, hvSeq, msgs, msgSeq, otherTables>>

\* INSERT INTO favorites (user_id, property_id) VALUES ($1,$2); 201
FavAddInsert(p) ==
    /\ call[p].pc = "fav_insert"
    /\ favorites' = [favorites EXCEPT ![<<call[p].user, call[p].id>>] = @ + 1]
    /\ call' = [call EXCEPT ![p] = RespondMessage(call[p], 201, "Favorite added")]
    /\ UNCHANGED <<hv, hvSeq, msgs, msgSeq, inquiries, inqSeq, pass, reset_tokens, tokSeq, issued>>

\* The INSERT is rejected because the pair is already stored (a unique
\* constraint, error code 23505): the catch block answers 500.
FavAddInsertDuplicate(p) ==
    /\ call[p].pc = "fav_insert"
    /\ favorites[<<call[p].user, call[p].id>>] > 0
    /\ call' = [call EXCEPT ![p] = RespondMessage(call[p], 500, "duplicate key value")]
    /\ UNCHANGED <<hv, hvSeq, msgs, msgSeq, otherTables>>

\* The INSERT is rejected because the property is gone (a foreign key, error
\* code 23503): 400.  A property that is gone has no favorites.
FavAddInsertNoProperty(p) ==
    /\ call[p].pc = "fav_insert"
    /\ \A u \in UserIds : favorites[<<u, call[p].id>>] = 0
    /\ call' = [call EXCEPT ![p] = RespondMessage(call[p], 400, "Property not found")]
    /\ UNCHANGED <<hv, hvSeq, msgs, msgSeq, otherTables>>

\* DELETE /favorites/:propertyId
FavRemoveStart(p, users, inputs) ==
    /\ Free(p)
    /\ \E u \in users, s \in inputs :
          call' = [call EXCEPT ![p] =
                     IF IsNaN(s)
                     THEN RespondMessage(Admitted("fremove", u, NoId), 400, "Invalid property ID")
                     ELSE [Admitted("fremove", u, ParseInt[s]) EXCEPT !.pc = "fav_delete"]]
    /\ UNCHANGED <<hv, hvSeq, msgs, msgSeq, otherTables>>

\* DELETE FROM favorites WHERE user_id=$1 AND property_id=$2;
\* 404 if result.rowCount === 0
FavRemoveDelete(p) ==
    /\ call[p].pc = "fav_delete"
    /\ LET c == call[p]
       IN  /\ favorites' = [favorites EXCEPT ![<<c.user, c.id>>] = 0]
           /\ call' = [call EXCEPT ![p] =
                         IF favorites[<<c.user, c.id>>] = 0
                         THEN RespondMessage(c, 404, "Favorite not found")
                         ELSE RespondMessage(c, 200, "Favorite removed")]
    /\ UNCHANGED <<hv, hvSeq, msgs, msgSeq, inquiries, inqSeq, pass, reset_tokens, tokSeq, issued>>

\* ------------------------------------------------------------ specifications
\* The steps of the calls in progress, the data store and blob storage
\* answering every request.
Steps(p) ==
    \/ CreateUpload(p) \/ CreateInsert(p)
    \/ ListSelect(p)
    \/ ClaimUpdate(p)
    \/ DeleteBegin(p) \/ DeleteSelect(p) \/ DeleteRollbackReturn(p)
    \/ DeleteMessages(p) \/ DeleteRequest(p) \/ DeleteCommit(p)
    \/ MessagesCheck(p) \/ MessagesSelect(p)
    \/ PostCheck(p) \/ PostUpload(p) \/ PostInsert(p)
    \/ UpdateUpload(p) \/ UpdateQuery(p)

\* Callers the all-routes specification enumerates per route.
ThreadReaders == {"u1", "e2"}
Listers == {"e1"}

\* All routes.  Client p1 runs every route but the claim, one call after the
\* other; client p2 issues the claims of the experts.
Next ==
    \/ CreateStart("p1", Creators, {"12 Elm St"}, {0})
    \/ ListStart("p1", Listers)
    \/ DeleteStart("p1", Creators)
    \/ MessagesStart("p1", ThreadReaders)
    \/ PostStart("p1", Creators, {"hi"}, {0})
    \/ UpdateStart("p1", Addresses, {0})
    \/ ClaimStart("p2", Experts)
    \/ \E p \in Procs : Steps(p)

Spec == Init /\ [][Next]_vars

\* The assignment workflow: two clients create, claim and delete requests.
NextClaim ==
    \E p \in Procs :
        \/ CreateStart(p, Creators, Addresses, {0})
        \/ ClaimStart(p, Callers)
        \/ DeleteStart(p, Creators)
        \/ CreateInsert(p) \/ CreateUpload(p)
        \/ ClaimUpdate(p)
        \/ DeleteBegin(p) \/ DeleteSelect(p) \/ DeleteRollbackReturn(p)
        \/ DeleteMessages(p) \/ DeleteRequest(p) \/ DeleteCommit(p)

SpecClaim == Init /\ [][NextClaim]_vars

\* Access to a thread: client p1 lists and posts messages as any actor while
\* client p2 creates requests and issues the experts' claims.
NextAccess ==
    \/ MessagesStart("p1", Callers)
    \/ PostStart("p1", Callers, Bodies, {0})
    \/ MessagesCheck("p1") \/ MessagesSelect("p1")
    \/ PostCheck("p1") \/ PostUpload("p1") \/ PostInsert("p1")
    \/ CreateStart("p2", Creators, {"12 Elm St"}, {0})
    \/ CreateUpload("p2") \/ CreateInsert("p2")
    \/ ClaimStart("p2", Experts)
    \/ ClaimUpdate("p2")

SpecAccess == Init /\ [][NextAccess]_vars

\* Deletion against the thread: client p1 posts messages, client p2 creates
\* and deletes requests; any statement of the delete handler and the INSERT
\* of a message may be rejected by the data store.
NextDelete ==
    \/ PostStart("p1", Creators, Bodies, {0})
    \/ PostCheck("p1") \/ PostUpload("p1") \/ PostInsert("p1")
    \/ QueryFails("p1")
    \/ CreateStart("p2", Creators, {"12 Elm St"}, {0})
    \/ CreateUpload("p2") \/ CreateInsert("p2")
    \/ DeleteStart("p2", Creators)
    \/ DeleteBegin("p2") \/ DeleteSelect("p2") \/ DeleteRollbackReturn("p2")
    \/ DeleteMessages("p2") \/ DeleteRequest("p2") \/ DeleteCommit("p2")
    \/ DeleteQueryFails("p2") \/ DeleteCatchRollback("p2") \/ DeleteCatchRollbackFails("p2")

SpecDelete == Init /\ [][NextDelete]_vars

\* Image uploads: client p1 posts messages with files as u1, client p2 creates
\* requests with files as an actor of any role and updates them; blob storage
\* may refuse any upload.
NextUpload ==
    \/ PostStart("p1", {"u1"}, Bodies, FileCounts)
    \/ PostCheck("p1") \/ PostUpload("p1") \/ PostUploadPartial("p1") \/ PostInsert("p1")
    \/ CreateStart("p2", Callers, Addresses, FileCounts)
    \/ CreateUpload("p2") \/ CreateUploadPartial("p2") \/ CreateInsert("p2")
    \/ UpdateStart("p2", {"12 Elm St"}, FileCounts)
    \/ UpdateUpload("p2") \/ UpdateUploadFails("p2") \/ UpdateQuery("p2")

SpecUpload == Init /\ [][NextUpload]_vars

\* Authentication: client p1 calls the routes of the home-value router with
\* tokens of every kind that is not accepted, client p2 creates requests,
\* posts messages and deletes requests with valid tokens.
NextAuth ==
    \/ Refused("p1", RouterOps, Tokens)
    \/ CreateStart("p2", Creators, {"12 Elm St"}, {0})
    \/ CreateUpload("p2") \/ CreateInsert("p2")
    \/ PostStart("p2", Creators, {"hi"}, {0})
    \/ PostCheck("p2") \/ PostUpload("p2") \/ PostInsert("p2")
    \/ DeleteStart("p2", Creators)
    \/ DeleteBegin("p2") \/ DeleteSelect("p2") \/ DeleteRollbackReturn("p2")
    \/ DeleteMessages("p2") \/ DeleteRequest("p2") \/ DeleteCommit("p2")

SpecAuth == Init /\ [][NextAuth]_vars

\* The inquiry thread: client p1 reads, lists, posts and deletes as the
\* user, the agent or an outsider; client p2 creates inquiries as u1 and
\* posts as either party.
NextInquiry ==
    \/ InqReadStart("p1", InqUsers) \/ InqReadSelect("p1")
    \/ InqMessagesStart("p1", InqUsers)
    \/ InqMessagesCheck("p1") \/ InqMessagesSelect("p1") \/ InqMessagesMark("p1")
    \/ InqPostStart("p1", InqUsers, Bodies)
    \/ InqDeleteStart("p1", InqUsers)
    \/ InqDeleteCheck("p1") \/ InqDeleteMessages("p1") \/ InqDeleteInquiry("p1")
    \/ InqCreateStart("p2", {"u1"}, InqAgents)
    \/ InqCreateBegin("p2") \/ InqCreateInsert("p2") \/ InqCreateMessage("p2")
    \/ InqCreateCommit("p2")
    \/ InqPostStart("p2", {"u1", "g1"}, {"hi"})
    \/ \E p \in Procs : InqPostCheck(p) \/ InqPostInsert(p) \/ InqPostStatus(p)

SpecInquiry == Init /\ [][NextInquiry]_vars

\* Inquiry creation against a failing data store: both clients create
\* inquiries, client p1 also reads them; any statement of the create handler
\* may be rejected.
NextInquiryCreate ==
    \/ \E p \in Procs :
          \/ InqCreateStart(p, {"u1", "e1"}, InqAgents)
          \/ InqCreateBegin(p) \/ InqCreateInsert(p) \/ InqCreateMessage(p)
          \/ InqCreateCommit(p)
          \/ InqCreateFails(p) \/ InqCreateCatchRollback(p)
          \/ InqCreateCatchRollbackFails(p)
    \/ InqReadStart("p1", InqUsers) \/ InqReadSelect("p1")

SpecInquiryCreate == Init /\ [][NextInquiryCreate]_vars

\* The account routes: both clients ask for reset links and reset passwords
\* with any token, signed or not, while tokens expire and calls fail.
NextAccount ==
    \/ \E p \in Procs :
          \/ ForgotStart(p, Emails)
          \/ ForgotSelect(p) \/ ForgotInsert(p) \/ ForgotMail(p) \/ ForgotFails(p)
          \/ ResetStart(p, 0..MaxTok, Passwords)
          \/ ResetSelect(p) \/ ResetHash(p) \/ ResetUpdate(p) \/ ResetDelete(p)
          \/ ResetFails(p)
    \/ \E t \in TokIds : Expire(t)

SpecAccount == Init /\ [][NextAccount]_vars

\* The favorites routes: both clients add favorites, client p1 also removes
\* them.
NextFavorites ==
    \/ \E p \in Procs :
          \/ FavAddStart(p, FavUsers, PropertyInputs)
          \/ FavAddCheck(p) \/ FavAddInsert(p)
          \/ FavAddInsertDuplicate(p) \/ FavAddInsertNoProperty(p)
    \/ FavRemoveStart("p1", FavUsers, PropertyInputs) \/ FavRemoveDelete("p1")

SpecFavorites == Init /\ [][NextFavorites]_vars

\* ------------------------------------------------------------ claims
Done(p, o) == call[p].pc = "done" /\ call[p].op = o

\* The step in which call p leaves program point pc.
Leaves(p, pc) == call[p].pc = pc /\ call'[p].pc # pc

\* C1: two claim calls of distinct experts on the same request, both issued
\* while the request was unclaimed (hence overlapping), end with exactly one
\* 200 and one 400, and the request, while it exists, is assigned to the
\* expert answered 200.
C1_ExactlyOneWinner ==
    \A p, q \in Procs :
        ( /\ p # q
          /\ Done(p, "claim") /\ Done(q, "claim")
          /\ call[p].id = call[q].id
          /\ call[p].user # call[q].user
          /\ call[p].role = "expert" /\ call[q].role = "expert"
          /\ call[p].issuedUnclaimed /\ call[q].issuedUnclaimed
          /\ Exists(call[p].id) )
        => /\ {call[p].status, call[q].status} = {200, 400}
           /\ call[p].status = 200 => hv[call[p].id].expert_id = call[p].user

C1_Witness ==
    /\ Done("p1", "claim") /\ Done("p2", "claim")
    /\ call["p1"].id = call["p2"].id
    /\ call["p1"].user = "e1" /\ call["p2"].user = "e2"
    /\ call["p1"].issuedUnclaimed /\ call["p2"].issuedUnclaimed
    /\ call["p1"].status = 400 /\ call["p2"].status = 200
    /\ Exists(call["p1"].id)
    /\ hv[call["p1"].id].expert_id = "e2"

\* C2: in every step, a request that exists before and after keeps its
\* expert_id unless that was null, and then the new value is the id of an expert.
C2_ExpertSetOnce ==
    [][\A i \in ReqIds :
          (hv[i] # NoRow /\ hv'[i] # NoRow /\ hv'[i].expert_id # hv[i].expert_id)
          => (hv[i].expert_id = NULL /\ hv'[i].expert_id \in Experts)]_vars

\* A claimed request was updated by the update route and is still claimed.
C2_Witness ==
    \E i \in ReqIds :
        /\ Exists(i) /\ hv[i].expert_id = "e2" /\ hv[i].address = ""
        /\ Done("p1", "update") /\ call["p1"].id = i /\ call["p1"].status = 200
        /\ Done("p2", "claim") /\ call["p2"].status = 400 /\ call["p2"].id = i

\* C3: the UPDATE of a claim call that runs on a request already claimed, by
\* whichever expert, is answered 400 and changes no request.
C3_ClaimedStaysClaimed ==
    [][\A p \in Procs :
          (Leaves(p, "v_update") /\ Exists(call[p].id)
             /\ hv[call[p].id].expert_id # NULL)
          => (call'[p].pc = "done" /\ call'[p].status = 400 /\ hv' = hv)]_vars

\* The assigned expert itself claimed again and was answered 400.
C3_Witness ==
    \E p \in Procs :
        /\ Done(p, "claim") /\ call[p].status = 400
        /\ ~call[p].issuedUnclaimed
        /\ Exists(call[p].id) /\ hv[call[p].id].expert_id = call[p].user

C5_NonExpertForbidden ==
    [][\A p \in Procs :
          /\ (call'[p].op = "claim" /\ call'[p].role # "expert")
             => /\ call'[p].pc = "done" /\ call'[p].status = 403
                /\ call'[p] # call[p] => (hv' = hv /\ hvSeq' = hvSeq)
          /\ \A i \in ReqIds :
                hv'[i] # NoRow => hv'[i].expert_id \in Experts \cup {NULL}]_vars

\* An admin was refused on a request that exists and an agent on an id that does not.
C5_Witness ==
    /\ Done("p1", "claim") /\ call["p1"].user = "a1" /\ call["p1"].status = 403
    /\ Exists(call["p1"].id)
    /\ Done("p2", "claim") /\ call["p2"].user = "g1" /\ call["p2"].status = 403
    /\ ~Exists(call["p2"].id)

\* C6 as claimed: the access check of a post call on an existing request lets
\* the call go on exactly when the actor is the owner, or an expert the
\* request is assigned to; any other call is answered 403 and stores nothing.
C6_PostOnlyOwnerOrAssigned ==
    [][\A p \in Procs :
          (Leaves(p, "p_check") /\ Exists(call[p].id))
          => LET c == call[p]
                 row == hv[c.id]
                 allowed == \/ c.user = row.user_id
                            \/ (c.role = "expert" /\ row.expert_id = c.user)
             IN  /\ (call'[p].pc = "p_upload") <=> allowed
                 /\ ~allowed => /\ call'[p].pc = "done" /\ call'[p].status = 403
                                /\ msgs' = msgs]_vars

\* C7 as claimed: the access check of a list-messages call on an existing
\* request lets the call go on exactly when the actor is the owner, or an
\* expert and the request is unclaimed or assigned to that expert.
C7_ReadOwnerOrEligibleExpert ==
    [][\A p \in Procs :
          (Leaves(p, "m_check") /\ Exists(call[p].id))
          => LET c == call[p]
                 row == hv[c.id]
                 allowed == \/ c.user = row.user_id
                            \/ (c.role = "expert"
                                  /\ (row.expert_id = NULL \/ row.expert_id = c.user))
             IN  (call'[p].pc = "m_select") <=> allowed]_vars

\* C8: once a request is assigned it stays assigned to the same expert, and
\* the access check of a list-messages or post call of any other expert who
\* is not the owner, run on the assigned request, ends the call with 403 and
\* stores no message.
C8_OtherExpertsDenied ==
    [][/\ \A p \in Procs :
            ( /\ Leaves(p, "m_check") \/ Leaves(p, "p_check")
              /\ Exists(call[p].id)
              /\ call[p].role = "expert"
              /\ hv[call[p].id].expert_id \notin {NULL, call[p].user}
              /\ hv[call[p].id].user_id # call[p].user )
            => /\ call'[p].pc = "done" /\ call'[p].status = 403
               /\ msgs' = msgs /\ msgSeq' = msgSeq
       /\ \A i \in ReqIds :
            (hv[i] # NoRow /\ hv[i].expert_id # NULL)
            => (hv'[i] # NoRow /\ hv'[i].expert_id = hv[i].expert_id)]_vars

\* Expert e2 was refused the thread of a request of u1 that e1 had claimed,
\* while posting.
C8_Witness ==
    /\ Done("p1", "post") /\ call["p1"].user = "e2" /\ call["p1"].status = 403
    /\ Exists(call["p1"].id)
    /\ hv[call["p1"].id].expert_id = "e1"
    /\ hv[call["p1"].id].user_id = "u1"
    /\ Done("p2", "claim") /\ call["p2"].user = "e1" /\ call["p2"].status = 200
    /\ call["p2"].id = call["p1"].id

\* C9 as claimed: when no call is in progress, every stored message belongs
\* to a request that exists.
C9_NoOrphanMessages ==
    (\A p \in Procs : Free(p))
    => \A m \in MsgIds : msgs[m] # NoRow => Exists(msgs[m].home_value_id)

\* C10 as claimed: a delete call is always answered; answered 204 it leaves
\* neither the request nor any message of it, and answered otherwise it
\* leaves the tables as they were.
C10_DeleteAllOrNothing ==
    [][\A p \in Procs :
          (call[p].op = "delete" /\ ~Free(p) /\ Free(p)')
          => /\ call'[p].pc = "done"
             /\ call'[p].status = 204
                => /\ hv'[call[p].id] = NoRow
                   /\ \A m \in MsgIds :
                         msgs'[m] # NoRow => msgs'[m].home_value_id # call[p].id
             /\ call'[p].status # 204 => (hv' = hv /\ msgs' = msgs)]_vars

\* C11 as claimed: the COMMIT of a delete call answered 204 on request R
\* leaves neither R nor any message of R, and leaves every message of another
\* request as it was; a delete call on an id that does not exist is sent to
\* the 404 answer, and that answer leaves both tables unchanged.
C11_DeleteRemovesThread ==
    [][\A p \in Procs :
          /\ (Leaves(p, "d_commit") /\ call'[p].pc = "done" /\ call'[p].status = 204)
             => /\ hv'[call[p].id] = NoRow
                /\ \A m \in MsgIds :
                      msgs[m] # NoRow
                      => IF msgs[m].home_value_id = call[p].id
                         THEN msgs'[m] = NoRow
                         ELSE msgs'[m] = msgs[m]
          /\ (Leaves(p, "d_select") /\ ~Exists(call[p].id) /\ call'[p].pc # "d_catch")
             => call'[p].pc = "d_rollback404"
          /\ (Leaves(p, "d_rollback404") /\ call'[p].pc = "done")
             => (call'[p].status = 404 /\ hv' = hv /\ msgs' = msgs)]_vars

\* C12: the check of a delete call on an existing request lets the call go on
\* exactly when the actor is the owner, or an expert the request is assigned
\* to; a call let through is answered 204 with the request gone, any other is
\* answered 403, and no step of a delete call before its COMMIT changes a
\* request or a message.
C12_DeleteOwnerOrAssigned ==
    [][\A p \in Procs :
          /\ (Leaves(p, "d_select") /\ Exists(call[p].id))
             => LET c == call[p]
                    row == hv[c.id]
                    allowed == \/ c.user = row.user_id
                               \/ (c.role = "expert" /\ row.expert_id = c.user)
                IN  call'[p].pc = IF allowed THEN "d_delmsgs" ELSE "d_rollback403"
          /\ Leaves(p, "d_rollback403")
             => (call'[p].pc = "done" /\ call'[p].status = 403)
          /\ Leaves(p, "d_commit")
             => (call'[p].pc = "done" /\ call'[p].status = 204
                 /\ hv'[call[p].id] = NoRow)
          /\ (call[p].op = "delete" /\ call'[p] # call[p] /\ call[p].pc # "d_commit")
             => (hv' = hv /\ msgs' = msgs)]_vars

\* Expert e1 was refused the deletion of a request of u1 that is assigned to
\* e2 and has a message; request and message are still there.
C12_Witness ==
    /\ Done("p1", "delete") /\ call["p1"].user = "e1" /\ call["p1"].status = 403
    /\ Exists(call["p1"].id)
    /\ hv[call["p1"].id].user_id = "u1"
    /\ hv[call["p1"].id].expert_id = "e2"
    /\ MsgsOf(call["p1"].id) # {}

\* C13 as claimed: every stored message has a body or at least one image.
C13_MessageNeverEmpty ==
    \A m \in MsgIds :
        msgs[m] # NoRow => (msgs[m].message # "" \/ msgs[m].images # <<>>)

\* C14: a post call either is answered 400 at once, or goes on to the check
\* of the request with a body or at least one file; hence a call with neither
\* is answered 400 whoever the actor and whatever the id; the step stores no
\* message.
C14_EmptyPostRejected ==
    [][\A p \in Procs :
          (Free(p) /\ call'[p] # call[p] /\ call'[p].op = "post")
          => /\ msgs' = msgs /\ msgSeq' = msgSeq
             /\ IF call'[p].pc = "done"
                THEN call'[p].status = 400
                ELSE /\ call'[p].pc = "p_check"
                     /\ (call'[p].message # "" \/ call'[p].files > 0)]_vars

\* Agent g1, who has no access to the request of u1, was answered 400.
C14_Witness ==
    /\ Done("p1", "post") /\ call["p1"].status = 400 /\ call["p1"].user = "g1"
    /\ Exists(call["p1"].id)
    /\ hv[call["p1"].id].user_id = "u1"
    /\ msgSeq = 0

\* C15 as claimed: the SELECT of a list-messages call answered 200 leaves
\* every message of the request sent by another actor with is_read = TRUE,
\* and every message sent by the caller with is_read as before.
C15_ListMarksRead ==
    [][\A p \in Procs :
          (Leaves(p, "m_select") /\ call'[p].pc = "done" /\ call'[p].status = 200)
          => \A m \in MsgsOf(call[p].id) :
                /\ msgs'[m] # NoRow
                /\ IF msgs[m].sender_id # call[p].user
                   THEN msgs'[m].is_read = TRUE
                   ELSE msgs'[m].is_read = msgs[m].is_read]_vars

\* C16 as claimed: the INSERT of a create or post call of which fewer images
\* were stored than files were submitted is not answered 200 or 201.
C16_NoPartialSuccess ==
    [][\A p \in Procs :
          ( /\ Leaves(p, "c_insert") \/ Leaves(p, "p_insert")
            /\ Len(call[p].imageUrls) < call[p].files )
          => call'[p].status \notin {200, 201}]_vars

\* C17 as claimed: the list answered to an actor holds every request the
\* actor owns, for an expert also every request that is unclaimed or assigned
\* to that expert, and no request that the actor does not own and that is
\* assigned to a different expert.
C17_ListContents ==
    [][\A p \in Procs :
          (Leaves(p, "l_select") /\ call'[p].pc = "done" /\ call'[p].status = 200)
          => LET c == call[p]
                 rows == call'[p].rows
             IN  \A i \in ReqIds :
                    IF ~Exists(i) THEN i \notin rows
                    ELSE /\ hv[i].user_id = c.user => i \in rows
                         /\ (c.role = "expert" /\ hv[i].expert_id \in {NULL, c.user})
                            => i \in rows
                         /\ (hv[i].user_id # c.user
                               /\ hv[i].expert_id \notin {NULL, c.user})
                            => i \notin rows]_vars

\* C18 as claimed: the UPDATE of an update call on an existing request whose
\* caller is neither the owner nor the assigned expert is not answered 200
\* and leaves the request unchanged.
C18_UpdateOwnerOnly ==
    [][\A p \in Procs :
          ( /\ Leaves(p, "u_update") /\ Exists(call[p].id)
            /\ call[p].user # hv[call[p].id].user_id
            /\ ~(call[p].role = "expert" /\ hv[call[p].id].expert_id = call[p].user) )
          => (call'[p].status # 200 /\ hv' = hv)]_vars

\* C19 as claimed: in every step, the images of a request that exists before
\* and after are a prefix of its images afterwards.
C19_ImagesAppendOnly ==
    [][\A i \in ReqIds :
          (hv[i] # NoRow /\ hv'[i] # NoRow)
          => /\ Len(hv[i].images) <= Len(hv'[i].images)
             /\ SubSeq(hv'[i].images, 1, Len(hv[i].images)) = hv[i].images]_vars

\* C20: a create call either is answered 400 at once, storing nothing, or
\* goes on with a non-empty address; its INSERT is answered 200 and stores
\* exactly one new request, owned by the caller and unassigned, whatever the
\* caller's role; no other step of the call changes a request.
C20_CreateStoresOne ==
    [][\A p \in Procs :
          /\ (Free(p) /\ call'[p] # call[p] /\ call'[p].op = "create")
             => /\ hv' = hv /\ hvSeq' = hvSeq
                /\ IF call'[p].pc = "done"
                   THEN call'[p].status = 400
                   ELSE call'[p].pc = "c_upload" /\ call'[p].address # ""
          /\ Leaves(p, "c_upload") => (hv' = hv /\ hvSeq' = hvSeq)
          /\ Leaves(p, "c_insert")
             => /\ call'[p].pc = "done" /\ call'[p].status = 200
                /\ hvSeq' = hvSeq + 1
                /\ hv[hvSeq'] = NoRow /\ hv'[hvSeq'] # NoRow
                /\ hv'[hvSeq'].user_id = call[p].user
                /\ hv'[hvSeq'].expert_id = NULL
                /\ hv'[hvSeq'].address = call[p].address
                /\ \A i \in ReqIds \ {hvSeq'} : hv'[i] = hv[i]]_vars

\* Admin a1 created a request: it is the newest row, owned by a1, unassigned.
C20_Witness ==
    /\ Done("p2", "create") /\ call["p2"].user = "a1" /\ call["p2"].status = 200
    /\ hvSeq > 0
    /\ hv[hvSeq] # NoRow
    /\ hv[hvSeq].user_id = "a1" /\ hv[hvSeq].expert_id = NULL

\* C21: a call of a route of the home-value router whose token is missing is
\* answered 401 and one whose token is invalid or expired is answered 403, at
\* once; the step changes no request and no message, and no such call is
\* ever in progress in a handler.
C21_UnauthenticatedRefused ==
    [][\A p \in Procs :
          ( /\ call'[p] # call[p]
            /\ call'[p].op \in RouterOps
            /\ call'[p].token # "valid" )
          => /\ call'[p].pc = "done"
             /\ call'[p].status = IF call'[p].token = "none" THEN 401 ELSE 403
             /\ UNCHANGED <<hv, hvSeq, msgs, msgSeq>>]_vars

\* A delete with an expired token was answered 403 while a request with a
\* message is stored.
C21_Witness ==
    /\ Done("p1", "delete") /\ call["p1"].token = "expired" /\ call["p1"].status = 403
    /\ \E i \in ReqIds : Exists(i) /\ MsgsOf(i) # {}

\* C22 as claimed, step by step: on a request of u1, the claim of an expert
\* while it is unclaimed is answered 200 and the claim of another expert
\* afterwards 409; the owner's post is answered 201; the list call of the
\* assigned expert is answered 200 with every message of the request, each
\* message of another sender having is_read = TRUE after the call; and a list
\* call for an id whose request is deleted is answered 404.
C22_Scenario ==
    [][\A p \in Procs :
          LET c == call[p]
          IN  /\ (Leaves(p, "v_update") /\ Exists(c.id) /\ hv[c.id].user_id = "u1")
                 => call'[p].status = IF hv[c.id].expert_id = NULL THEN 200 ELSE 409
              /\ (Leaves(p, "p_insert") /\ c.user = "u1")
                 => call'[p].status = 201
              /\ (Leaves(p, "m_select") /\ Exists(c.id) /\ hv[c.id].expert_id = c.user)
                 => /\ call'[p].status = 200
                    /\ call'[p].rows = MsgsOf(c.id)
                    /\ \A m \in MsgsOf(c.id) :
                          msgs[m].sender_id # c.user => msgs'[m].is_read = TRUE
              /\ (Leaves(p, "m_check") /\ ~Exists(c.id))
                 => call'[p].status = 404]_vars

\* C23 as claimed: a call in progress ends only by sending a response, also
\* when statements of the data store are rejected.
C23_AlwaysAnswered ==
    [][\A p \in Procs :
          (~Free(p) /\ call'[p].pc \in {"idle", "done", "crashed"})
          => (call'[p].pc = "done" /\ call'[p].status # 0)]_vars

\* C24: every message that a call listing the messages of an inquiry marks
\* as read is among the rows of that call's response.
C24_MarkedReadWasReturned ==
    [][\A p \in Procs :
          (call[p].pc = "im_mark" /\ call'[p].pc = "done") =>
             \A m \in MsgIds :
                (/\ msgs[m] # NoRow /\ msgs'[m] # NoRow
                 /\ ~msgs[m].is_read /\ msgs'[m].is_read) => m \in call'[p].rows]_vars

C28_PartiesOnly ==
    [][\A p \in Procs :
          (/\ call[p].pc \in {"ir_select", "im_check", "ip_check", "id_check"}
           /\ call'[p] # call[p]
           /\ InqExists(call[p].id)
           /\ call[p].user # inquiries[call[p].id].user_id
           /\ call[p].user # inquiries[call[p].id].agent_id) =>
             /\ call'[p].pc = "done" /\ call'[p].status = 403
             /\ UNCHANGED <<inquiries, msgs>>]_vars

\* An outsider asked to delete an inquiry that has an unread message, was
\* answered 403, and the inquiry and the message are still there.
C28_Witness ==
    /\ Done("p1", "idelete") /\ call["p1"].user = "e1" /\ call["p1"].status = 403
    /\ InqExists(call["p1"].id)
    /\ inquiries[call["p1"].id].agent_id = "g1"
    /\ \E m \in InqMsgsOf(call["p1"].id) : ~msgs[m].is_read

\* C29: an inquiry is created with status 'pending'; its status changes only
\* to 'in_progress', and only in the step of a post by its agent that ends
\* with 201; and no step of a post by the inquiry's user changes its status.
C29_StatusLifecycle ==
    [][\A i \in InqIds :
          /\ (~InqExists(i) /\ InqExists(i)') => inquiries'[i].status = "pending"
          /\ (InqExists(i) /\ InqExists(i)' /\ inquiries'[i].status # inquiries[i].status) =>
                /\ inquiries'[i].status = "in_progress"
                /\ \E p \in Procs :
                      /\ call[p].op = "ipost" /\ call[p].id = i
                      /\ call[p].user = inquiries[i].agent_id
                      /\ call'[p].pc = "done" /\ call'[p].status = 201
          /\ \A p \in Procs :
                (/\ call[p].op = "ipost" /\ call[p].id = i /\ call'[p] # call[p]
                 /\ InqExists(i) /\ InqExists(i)'
                 /\ call[p].user = inquiries[i].user_id) =>
                   inquiries'[i].status = inquiries[i].status]_vars

\* C25: a reset token gives at most one successful password reset: no two
\* reset calls with the same token are both answered 200.
C25_AtMostOneReset ==
    \A p, q \in Procs :
       (/\ p # q
        /\ Done(p, "reset") /\ call[p].status = 200
        /\ Done(q, "reset") /\ call[q].status = 200) => call[p].id # call[q].id

\* C30: the answer of forgot-password does not tell whether the address is
\* registered: any two answered calls with non-empty addresses, neither of
\* which met a store or mail error, have the same status and the same body
\* (200 and the same message).
C30_ForgotSameAnswer ==
    \A p, q \in Procs :
       (/\ Done(p, "forgot") /\ call[p].email # "" /\ call[p].status # 500
        /\ Done(q, "forgot") /\ call[q].email # "" /\ call[q].status # 500) =>
          /\ call[p].status = call[q].status
          /\ call[p].body = call[q].body
          /\ call[p].status = 200

\* A call with a registered address, for which a token was stored, and a call
\* with an unregistered address have both been answered.
C30_Witness ==
    /\ Done("p1", "forgot") /\ UserByEmail(call["p1"].email) = "u1"
    /\ call["p1"].status = 200
    /\ \E r \in reset_tokens : r.user_id = "u1"
    /\ Done("p2", "forgot") /\ call["p2"].email # ""
    /\ UserByEmail(call["p2"].email) = NULL
    /\ call["p2"].status = 200

\* C26: the favorites store never holds a (user, property) pair twice, and
\* an add of a pair that is already stored is answered 400 'Favorite already
\* exists'.
C26_NoDuplicateFavorite ==
    [][/\ \A f \in UserIds \X PropertyIds : favorites'[f] <= 1
       /\ \A p \in Procs :
             (/\ call[p].op = "fadd" /\ call[p].pc = "fav_insert"
              /\ call'[p].pc = "done"
              /\ favorites[<<call[p].user, call[p].id>>] > 0) =>
                /\ call'[p].status = 400
                /\ call'[p].body = "Favorite already exists"]_vars

====
